---- MODULE Spec2Model ----
(***************************************************************************)
(* Model of the two scripts of workout-sync-notion:                        *)
(*   - cleanup-duplicates.py   (the Duplicate Resolver), under SpecDedup   *)
(*   - garmin_session_auth.py  (the Session Manager),    under SpecAuth    *)
(* Strings are sequences of character tokens, so that split, strip, lower, *)
(* concatenation and string comparison are computed rather than assumed.   *)
(***************************************************************************)
EXTENDS Integers, Sequences, FiniteSets, Bags, TLC

VARIABLES
    \* ---- cleanup-duplicates.py ----
    pc,                   \* position of main(): "start","confirm","fetch","identify","final_confirm","remove","done"
    env,                  \* [notion_token, database_id]: whether each environment variable is set
    all_activities,       \* get_all_activities_with_duplicates: all_activities
    duplicates_map,       \* ordered dict key -> list, as a sequence of [key, activities]
    has_more,             \* loop flag of the pagination loop
    start_cursor,         \* cursor to send with the next query (NoCursor: None)
    response,             \* the last response of client.databases.query (NoResponse before)
    confirm,              \* main(): the normalised answer to the first prompt (Unset before)
    final_confirm,        \* main(): the normalised answer to the second prompt (Unset before)
    duplicates_to_remove, \* main(): result of identify_duplicates
    removed_count,        \* remove_duplicates: removed_count
    idx,                  \* remove_duplicates: number of list entries already processed
    report,               \* <<removed_count, total>> of the "Successfully archived" line, <<>> before
    outcome,              \* the line of main() at which the run ended, "" before
    trace,                \* every prompt and every remote request of the run, in order
    \* ---- garmin_session_auth.py ----
    now,                  \* datetime.now(), in ticks (TicksPerDay to a day)
    file_exists,          \* self.session_file.exists()
    session_file,         \* the bytes of session.pkl
    file_mode,            \* its permission bits, "0600" or "0644"
    email,                \* self.email (NoEmail: None)
    password,             \* whether self.password is set
    garmin,               \* self.garmin
    outcome_of_call,      \* what the last call returned or raised
    events,               \* what the last call did, in order
    calls,                \* number of calls made so far
    ticks,                \* number of times the clock was advanced
    exported,             \* the string the last export_session_for_github returned
    session_b64,          \* import_session_from_github: session_b64 (get_garmin_client: github_session)
    client_pc             \* position of get_garmin_client(): "idle", "login" (line 180 is next), "done"

dedupVars == <<pc, env, all_activities, duplicates_map, has_more, start_cursor, response,
               confirm, final_confirm, duplicates_to_remove, removed_count, idx, report, outcome, trace>>

authVars == <<now, file_exists, session_file, file_mode, email, password, garmin,
              outcome_of_call, events, calls, ticks, exported, session_b64, client_pc>>

vars == <<dedupVars, authVars>>

\* start_cursor = None. The server's cursors are the numbers 1, 2, ...
NoCursor == 0

----------------------------------------------------------------------------
(* Bounds of the model *)

\* Largest number of records the server returns over one run.
MaxFetched == 4
\* Largest number of records in one response page.
MaxPageSize == 2
\* Largest number of queries the server answers with has_more = True.
MaxMorePages == 2
\* Resolution of the clock: ticks to a day.
TicksPerDay == 2
\* Largest number of calls on one GarminSessionAuth object.
MaxCalls == 2
\* Largest number of times the clock advances.
MaxTicks == 1

----------------------------------------------------------------------------
(* Strings *)

Range(s) == {s[i] : i \in DOMAIN s}

\* Python str < str on strings of digit characters: lexicographic.
RECURSIVE StrLess(_, _)
StrLess(a, b) ==
    IF b = <<>> THEN FALSE
    ELSE IF a = <<>> THEN TRUE
    ELSE IF Head(a) # Head(b) THEN Head(a) < Head(b)
    ELSE StrLess(Tail(a), Tail(b))

StrLeq(a, b) == ~StrLess(b, a)

\* s.split("T")[0]: the part of s before the first "T".
RECURSIVE SplitT0(_)
SplitT0(s) ==
    IF s = <<>> \/ Head(s) = "T" THEN <<>>
    ELSE <<Head(s)>> \o SplitT0(Tail(s))

\* str.lower() on the characters the prompts' answers are made of.
LowerChar(c) ==
    CASE c = "Y" -> "y"
      [] c = "E" -> "e"
      [] c = "S" -> "s"
      [] c = "N" -> "n"
      [] c = "O" -> "o"
      [] OTHER -> c

Lower(s) == [i \in DOMAIN s |-> LowerChar(s[i])]

RECURSIVE LStrip(_)
LStrip(s) == IF s # <<>> /\ Head(s) = " " THEN LStrip(Tail(s)) ELSE s

RECURSIVE RStrip(_)
RStrip(s) ==
    IF s # <<>> /\ s[Len(s)] = " " THEN RStrip(SubSeq(s, 1, Len(s) - 1)) ELSE s

Strip(s) == RStrip(LStrip(s))

\* Faulty variant: any answer that starts with "y" counts as a yes.
StartsWithY(normalised) == normalised # <<>> /\ Head(normalised) = "y"

\* input(...).strip().lower()
Normalised(answer) == Strip(Lower(answer))

\* confirm not in ["yes", "y"], negated
IsAffirmative(normalised) == normalised \in {<<"y", "e", "s">>, <<"y">>}

\* A local variable that is not assigned yet.
Unset == <<"unset">>

\* What the operator may type at a prompt.
Answers ==
    { <<"y", "e", "s">>, <<"y">>, <<" ", "Y", "E", "S", " ">>, <<"Y">>,
      <<"n", "o">>, <<>>, <<"y", "e", "s", "!">>, <<"y", " ", "e", "s">> }

----------------------------------------------------------------------------
(* The remote database: the pages the query endpoint may return *)

\* A page as the query endpoint returns it. date_is_null stands for a Date
\* property that is present and empty ("date": null).
Page(id, date_is_null, start, type, name, created) ==
    [id |-> id, date_is_null |-> date_is_null, date_start |-> start,
     activity_type |-> type, activity_name |-> name, created_time |-> created]

\* Page 5 has an empty Date property ("date": null), on which the
\* extraction of line 34 raises AttributeError.
Database ==
    { Page(1, FALSE, <<"2024-01-01", "T", "08:00">>, <<"Run">>, <<"Morning Run">>, <<0, 1>>),
      Page(2, FALSE, <<"2024-01-01">>, <<"Run">>, <<"Morning Run">>, <<0, 2>>),
      Page(3, FALSE, <<"2024-01-01", "T", "09:30">>, <<"Run">>, <<"Morning Run">>, <<0, 1>>),
      Page(4, FALSE, <<"2024-01-01">>, <<"Run">>, <<"Evening Run">>, <<0, 3>>),
      Page(5, TRUE, <<>>, <<"Run">>, <<"Morning Run">>, <<0, 4>>) }

\* All sequences over S of length at most n.
RECURSIVE SeqsUpTo(_, _)
SeqsUpTo(S, n) ==
    IF n = 0 THEN {<<>>}
    ELSE LET shorter == SeqsUpTo(S, n - 1)
         IN shorter \cup {Append(s, x) : s \in {t \in shorter : Len(t) = n - 1}, x \in S}

Min(a, b) == IF a < b THEN a ELSE b

----------------------------------------------------------------------------
(* get_all_activities_with_duplicates *)

ExtractionRaises(result) == result.date_is_null

\* Faulty variant: the key leaves out the activity name.
UniqueKeyWithoutName(date, activity_type, activity_name) ==
    date \o <<"|">> \o activity_type

\* f"{date}|{activity_type}|{activity_name}"
UniqueKey(date, activity_type, activity_name) ==
    date \o <<"|">> \o activity_type \o <<"|">> \o activity_name

ActivityInfo(result) ==
    LET date == SplitT0(result.date_start)
    IN [id |-> result.id,
        date |-> date,
        activity_type |-> result.activity_type,
        activity_name |-> result.activity_name,
        unique_key |-> UniqueKey(date, result.activity_type, result.activity_name),
        created_time |-> result.created_time]

\* duplicates_map[unique_key].append(activity_info) on a defaultdict(list):
\* a new key is inserted last, an existing key keeps its place.
MapAppend(m, info) ==
    IF \E i \in DOMAIN m : m[i].key = info.unique_key
    THEN [i \in DOMAIN m |->
            IF m[i].key = info.unique_key
            THEN [m[i] EXCEPT !.activities = Append(@, info)]
            ELSE m[i]]
    ELSE Append(m, [key |-> info.unique_key, activities |-> <<info>>])

\* The for loop over response["results"], up to the first result whose
\* extraction raises.
RECURSIVE ProcessResults(_, _, _)
ProcessResults(results, acts, m) ==
    IF results = <<>> THEN [raised |-> FALSE, all |-> acts, map |-> m]
    ELSE IF ExtractionRaises(Head(results)) THEN [raised |-> TRUE, all |-> acts, map |-> m]
    ELSE LET info == ActivityInfo(Head(results))
         IN ProcessResults(Tail(results), Append(acts, info), MapAppend(m, info))

----------------------------------------------------------------------------
(* identify_duplicates *)

\* Faulty variant: x goes before the elements whose key equals its own (not stable).
RECURSIVE InsertBeforeEqual(_, _)
InsertBeforeEqual(sorted, x) ==
    IF sorted = <<>> THEN <<x>>
    ELSE IF StrLess(Head(sorted).created_time, x.created_time)
         THEN <<Head(sorted)>> \o InsertBeforeEqual(Tail(sorted), x)
         ELSE <<x>> \o sorted

\* Position of x in an ascending list: after every element whose key is <= x's.
RECURSIVE InsertByCreatedTime(_, _)
InsertByCreatedTime(sorted, x) ==
    IF sorted = <<>> THEN <<x>>
    ELSE IF StrLeq(Head(sorted).created_time, x.created_time)
         THEN <<Head(sorted)>> \o InsertByCreatedTime(Tail(sorted), x)
         ELSE <<x>> \o sorted

RECURSIVE SortByCreatedTimeFrom(_, _)
SortByCreatedTimeFrom(sorted, rest) ==
    IF rest = <<>> THEN sorted
    ELSE SortByCreatedTimeFrom(InsertByCreatedTime(sorted, Head(rest)), Tail(rest))

\* Faulty variant: the list is left in fetch order (the sort is missing).
NotSorted(activities) == activities

\* activities.sort(key=lambda x: x["created_time"]): ascending and stable.
SortByCreatedTime(activities) == SortByCreatedTimeFrom(<<>>, activities)

\* activities[1:]
DuplicatesToRemove(activities) == Tail(activities)

\* The buckets after the loop: those longer than 1 are sorted in place.
SortedMap(m) ==
    [i \in DOMAIN m |->
        IF Len(m[i].activities) > 1
        THEN [m[i] EXCEPT !.activities = SortByCreatedTime(@)]
        ELSE m[i]]

RECURSIVE ExtendFrom(_, _)
ExtendFrom(m, i) ==
    IF i > Len(m) THEN <<>>
    ELSE (IF Len(m[i].activities) > 1 THEN DuplicatesToRemove(m[i].activities) ELSE <<>>)
         \o ExtendFrom(m, i + 1)

identify_duplicates(m) == ExtendFrom(SortedMap(m), 1)

----------------------------------------------------------------------------
(* Remote requests and prompts, as recorded in trace *)

Event(op, kwargs, page_id, archived, cursor, ok) ==
    [op |-> op, kwargs |-> kwargs, page_id |-> page_id, archived |-> archived,
     start_cursor |-> cursor, ok |-> ok]

\* input("Do you want to proceed? ...") and input("Proceed with removal? ...")
InputEvent(prompt, ok) == Event("input", <<prompt>>, 0, FALSE, NoCursor, ok)

\* Faulty variant: the cursor is never passed, every query asks for the first page.
QueryEventWithoutCursor(cursor, ok) ==
    Event("databases.query", <<"database_id">>, 0, FALSE, NoCursor, ok)

\* client.databases.query(**query_params): start_cursor is passed only if truthy.
QueryEvent(cursor, ok) ==
    Event("databases.query",
          IF cursor # NoCursor THEN <<"database_id", "start_cursor">> ELSE <<"database_id">>,
          0, FALSE, cursor, ok)

\* Faulty variant: the page is un-archived.
UnarchiveRequest(duplicate, ok) ==
    Event("pages.update", <<"page_id", "archived">>, duplicate.id, FALSE, NoCursor, ok)

\* client.pages.update(page_id=duplicate["id"], archived=True)
ArchiveRequest(duplicate, ok) ==
    Event("pages.update", <<"page_id", "archived">>, duplicate.id, TRUE, NoCursor, ok)

Queries == SelectSeq(trace, LAMBDA e : e.op = "databases.query")
Updates == SelectSeq(trace, LAMBDA e : e.op = "pages.update")

----------------------------------------------------------------------------
(* main *)

End(line) ==
    /\ pc' = "done"
    /\ outcome' = line

\* Lines 132-137: the environment check.
MainStart ==
    /\ pc = "start"
    /\ IF ~env.notion_token \/ ~env.database_id
       THEN End("return@137")
       ELSE pc' = "confirm" /\ outcome' = outcome
    /\ UNCHANGED <<response, env, all_activities, duplicates_map, has_more, start_cursor,
                   confirm, final_confirm, duplicates_to_remove, removed_count, idx,
                   report, trace>>
    /\ UNCHANGED authVars

\* Lines 148-151: the first prompt; an affirmative answer enters the fetch loop.
Confirm ==
    /\ pc = "confirm"
    /\ \E answer \in Answers :
         /\ trace' = Append(trace, InputEvent("proceed", TRUE))
         /\ confirm' = Normalised(answer)
         /\ IF IsAffirmative(confirm')
            THEN pc' = "fetch" /\ outcome' = outcome
            ELSE End("return@151")
    /\ UNCHANGED <<response, env, all_activities, duplicates_map, has_more, start_cursor,
                   final_confirm, duplicates_to_remove, removed_count, idx, report>>
    /\ UNCHANGED authVars

\* Line 148 outside the try block: input() raising (EOFError) leaves main.
ConfirmRaises ==
    /\ pc = "confirm"
    /\ trace' = Append(trace, InputEvent("proceed", FALSE))
    /\ End("raise@148")
    /\ UNCHANGED <<response, env, all_activities, duplicates_map, has_more, start_cursor,
                   confirm, final_confirm, duplicates_to_remove, removed_count, idx,
                   report>>
    /\ UNCHANGED authVars

\* No response received yet.
NoResponse == [results |-> <<>>, has_more |-> FALSE, next_cursor |-> NoCursor]

\* What the server may answer to a query: a page of results, has_more and
\* next_cursor (a cursor exactly when there are more pages).
Responses ==
    LET room == Min(MaxPageSize, MaxFetched - Len(all_activities))
        mores == IF Len(Queries) < MaxMorePages THEN BOOLEAN ELSE {FALSE}
    IN { [results |-> rs, has_more |-> m,
          next_cursor |-> IF m THEN Len(Queries) + 1 ELSE NoCursor] :
         rs \in SeqsUpTo(Database, room), m \in mores }

\* Lines 23-61: one iteration of the pagination loop; an exception of the
\* extraction is caught at line 178.
Query ==
    /\ pc = "fetch"
    /\ has_more
    /\ \E received \in Responses :
         LET r == ProcessResults(received.results, all_activities, duplicates_map)
         IN /\ trace' = Append(trace, QueryEvent(start_cursor, TRUE))
            /\ response' = received
            /\ all_activities' = r.all
            /\ duplicates_map' = r.map
            /\ IF r.raised
               THEN /\ End("except@179")
                    /\ UNCHANGED <<has_more, start_cursor>>
               ELSE /\ has_more' = received.has_more
                    /\ start_cursor' = received.next_cursor
                    /\ pc' = IF received.has_more THEN "fetch" ELSE "identify"
                    /\ outcome' = outcome
    /\ UNCHANGED <<env, confirm, final_confirm, duplicates_to_remove, removed_count,
                   idx, report>>
    /\ UNCHANGED authVars

\* Faulty variant: a query that raises ends the loop, and the run goes on
\* with the pages fetched so far.
QueryRaisesAndGoesOn ==
    /\ pc = "fetch"
    /\ has_more
    /\ trace' = Append(trace, QueryEvent(start_cursor, FALSE))
    /\ pc' = "identify"
    /\ UNCHANGED <<response, env, all_activities, duplicates_map, has_more, start_cursor,
                   confirm, final_confirm, duplicates_to_remove, removed_count, idx,
                   report, outcome>>
    /\ UNCHANGED authVars

\* Line 28 raising: caught at line 178, nothing is retried.
QueryRaises ==
    /\ pc = "fetch"
    /\ has_more
    /\ trace' = Append(trace, QueryEvent(start_cursor, FALSE))
    /\ End("except@179")
    /\ UNCHANGED <<response, env, all_activities, duplicates_map, has_more, start_cursor,
                   confirm, final_confirm, duplicates_to_remove, removed_count, idx,
                   report>>
    /\ UNCHANGED authVars

\* Lines 158-162.
Identify ==
    /\ pc = "identify"
    /\ duplicates_to_remove' = identify_duplicates(duplicates_map)
    /\ duplicates_map' = SortedMap(duplicates_map)
    /\ IF duplicates_to_remove' = <<>>
       THEN End("return@162")
       ELSE pc' = "final_confirm" /\ outcome' = outcome
    /\ UNCHANGED <<response, env, all_activities, has_more, start_cursor, confirm, final_confirm,
                   removed_count, idx, report, trace>>
    /\ UNCHANGED authVars

\* Lines 166-173 and 104-110: the second prompt; an affirmative answer
\* enters remove_duplicates.
FinalConfirm ==
    /\ pc = "final_confirm"
    /\ \E answer \in Answers :
         /\ trace' = Append(trace, InputEvent("removal", TRUE))
         /\ final_confirm' = Normalised(answer)
         /\ IF ~IsAffirmative(final_confirm')
            THEN End("return@170")
            ELSE IF duplicates_to_remove = <<>>
                 THEN End("end@176")
                 ELSE pc' = "remove" /\ outcome' = outcome
    /\ removed_count' = 0
    /\ idx' = 0
    /\ UNCHANGED <<response, env, all_activities, duplicates_map, has_more, start_cursor,
                   confirm, duplicates_to_remove, report>>
    /\ UNCHANGED authVars

\* Line 166 inside the try block: input() raising is caught at line 178.
FinalConfirmRaises ==
    /\ pc = "final_confirm"
    /\ trace' = Append(trace, InputEvent("removal", FALSE))
    /\ End("except@179")
    /\ UNCHANGED <<response, env, all_activities, duplicates_map, has_more, start_cursor,
                   confirm, final_confirm, duplicates_to_remove, removed_count, idx,
                   report>>
    /\ UNCHANGED authVars

\* Faulty variant: the count is incremented whether or not the request raised.
CountedAlways(count, ok) == count + 1

\* Line 117 is reached only if the request of line 114 did not raise.
RemovedCount(count, ok) == IF ok THEN count + 1 ELSE count

\* Lines 111-125: one iteration of the removal loop, and after the last
\* one the report and the end of main.
Archive ==
    /\ pc = "remove"
    /\ idx < Len(duplicates_to_remove)
    /\ \E ok \in BOOLEAN :
         /\ trace' = Append(trace, ArchiveRequest(duplicates_to_remove[idx + 1], ok))
         /\ removed_count' = RemovedCount(removed_count, ok)
    /\ idx' = idx + 1
    /\ IF idx' = Len(duplicates_to_remove)
       THEN /\ report' = <<removed_count', Len(duplicates_to_remove)>>
            /\ End("end@176")
       ELSE /\ report' = report
            /\ pc' = pc /\ outcome' = outcome
    /\ UNCHANGED <<response, env, all_activities, duplicates_map, has_more, start_cursor,
                   confirm, final_confirm, duplicates_to_remove>>
    /\ UNCHANGED authVars

InitDedup ==
    /\ pc = "start"
    /\ env \in [notion_token : BOOLEAN, database_id : BOOLEAN]
    /\ all_activities = <<>>
    /\ duplicates_map = <<>>
    /\ has_more = TRUE
    /\ start_cursor = NoCursor
    /\ response = NoResponse
    /\ confirm = Unset
    /\ final_confirm = Unset
    /\ duplicates_to_remove = <<>>
    /\ removed_count = 0
    /\ idx = 0
    /\ report = <<>>
    /\ outcome = ""
    /\ trace = <<>>

NextDedup ==
    \/ MainStart
    \/ Confirm
    \/ ConfirmRaises
    \/ Query
    \/ QueryRaises
    \/ Identify
    \/ FinalConfirm
    \/ FinalConfirmRaises
    \/ Archive


----------------------------------------------------------------------------
(* garmin_session_auth.py: the persisted session *)

\* timedelta(days=360)
SESSION_MAX_AGE_DAYS == 360

\* self.email is None
NoEmail == 0

\* First byte of a pickle stream (protocol marker).
PICKLE_PROTO == 128

\* Session blobs garth.dumps() can return and garth.loads() can restore.
Tokens == {1, 2}

Days(n) == n * TicksPerDay

\* pickle.dump(session_data, f): the bytes of
\* {"session": ..., "timestamp": ..., "email": ...}.
Pickle(d) ==
    <<PICKLE_PROTO, d.session, d.timestamp \div 256, d.timestamp % 256, d.email>>

\* pickle.load(f) raises on bytes that are no pickle stream.
UnpickleRaises(bytes) == ~(Len(bytes) = 5 /\ bytes[1] = PICKLE_PROTO)

Unpickle(bytes) ==
    [session |-> bytes[2], timestamp |-> bytes[3] * 256 + bytes[4], email |-> bytes[5]]

SessionData(session, timestamp, mail) ==
    [session |-> session, timestamp |-> timestamp, email |-> mail]

\* Faulty variant: a session of exactly 360 days is too old.
SessionTooOldAtThreshold(session_age) == session_age >= Days(SESSION_MAX_AGE_DAYS)

\* Faulty variant: only whole days are compared (session_age.days > 360).
SessionTooOldByDays(session_age) == session_age \div TicksPerDay > SESSION_MAX_AGE_DAYS

\* session_age > timedelta(days=360)
SessionTooOld(session_age) == session_age > Days(SESSION_MAX_AGE_DAYS)

\* Faulty variant: no blob can be restored, not even one garth.dumps() returned.
LoadsRaisesAlways(blob) == TRUE

\* self.garmin.garth.loads(...) raises on a blob that is no garth session.
LoadsRaises(blob) == blob \notin Tokens

\* One step of a call: what was called or raised, whether it succeeded, and
\* the number the printed message carries (session_age.days), else 0.
EvInfo(what, ok, info) == [what |-> what, ok |-> ok, info |-> info]
Ev(what, ok) == EvInfo(what, ok, 0)

\* Mode of a file that open(..., "wb") creates (umask 022).
CreationMode == "0644"

NoClient == [kind |-> "None", token |-> 0]
Client(kind, token) == [kind |-> kind, token |-> token]

Returned(client) == [kind |-> "return", exc |-> "", client |-> client]
Raised(exc) == [kind |-> "raise", exc |-> exc, client |-> NoClient]
NoResult == [kind |-> "", exc |-> "", client |-> NoClient]

\* What the environment does during one call. Reading the file: it cannot
\* be opened, or the server answers the probe.
ReuseOracles ==
    {[read_ok |-> FALSE, probe |-> "ok"]}
    \cup {[read_ok |-> TRUE, probe |-> p] :
            p \in {"ok", "GarminConnectAuthenticationError", "GarminConnectConnectionError"}}

\* The credential login: it raises, or the server issues a session.
AuthOracles ==
    {[auth_ok |-> FALSE, token |-> 0]}
    \cup {[auth_ok |-> TRUE, token |-> t] : t \in Tokens}

\* Saving: the first step that fails, and the number of bytes (fewer than
\* the 5 of a pickle stream) that reach the file when it is the write.
SaveOracles ==
    {[save |-> sv, written |-> 0] : sv \in {"ok", "dumps fails", "open fails", "chmod fails"}}
    \cup {[save |-> "write fails", written |-> k] : k \in 0 .. 4}

Oracles ==
    {[read_ok |-> r.read_ok, probe |-> r.probe, auth_ok |-> a.auth_ok, token |-> a.token,
      save |-> sv.save, written |-> sv.written] :
        r \in ReuseOracles, a \in AuthOracles, sv \in SaveOracles}

\* _login_with_session (lines 60-83): either the restored client or the
\* exception that leaves the method.
LoginWithSession(o) ==
    IF ~o.read_ok
    THEN [raised |-> "OSError", garmin |-> garmin,
          events |-> <<Ev("open rb", FALSE), Ev("OSError", FALSE)>>]
    ELSE IF UnpickleRaises(session_file)
    THEN [raised |-> "UnpicklingError", garmin |-> garmin,
          events |-> <<Ev("open rb", TRUE), Ev("pickle.load", FALSE),
                       Ev("UnpicklingError", FALSE)>>]
    ELSE
      LET session_data == Unpickle(session_file)
          session_age == now - session_data.timestamp
          read == <<Ev("open rb", TRUE), Ev("pickle.load", TRUE)>>
      IN IF SessionTooOld(session_age)
         THEN [raised |-> "Session too old", garmin |-> garmin,
               events |-> Append(read, EvInfo("Session too old", FALSE,
                                              session_age \div TicksPerDay))]
         ELSE IF LoadsRaises(session_data.session)
         THEN [raised |-> "garth.loads error", garmin |-> Client("empty", 0),
               events |-> read \o <<Ev("Garmin()", TRUE), Ev("garth.loads", FALSE),
                                     Ev("garth.loads error", FALSE)>>]
         ELSE
           LET restored == Client("restored", session_data.session)
               tried == read \o <<Ev("Garmin()", TRUE), Ev("garth.loads", TRUE)>>
           IN IF o.probe = "ok"
              THEN [raised |-> "", garmin |-> restored,
                    events |-> tried \o <<Ev("get_full_name", TRUE),
                                           EvInfo("Session valid", TRUE,
                                                  session_age \div TicksPerDay)>>]
              ELSE [raised |-> IF o.probe = "GarminConnectAuthenticationError"
                               THEN "Session expired or invalid" ELSE o.probe,
                    garmin |-> restored,
                    events |-> tried \o <<Ev("get_full_name", FALSE),
                                           Ev(IF o.probe = "GarminConnectAuthenticationError"
                                              THEN "Session expired or invalid"
                                              ELSE o.probe, FALSE)>>]

\* Faulty variant: the permissions are left as they were (no chmod).
SaveSessionWithoutChmod(g, o) ==
    [exists |-> TRUE,
     bytes |-> Pickle(SessionData(g.token, now, email)),
     mode |-> IF file_exists THEN file_mode ELSE CreationMode,
     events |-> <<Ev("garth.dumps", TRUE), Ev("open wb", TRUE), Ev("pickle.dump", TRUE)>>]

\* _save_session (lines 99-118) for client g: the file after it. Every
\* exception is caught at line 117 and only printed.
SaveSession(g, o) ==
    LET keep == [exists |-> file_exists, bytes |-> session_file, mode |-> file_mode]
        bytes == Pickle(SessionData(g.token, now, email))
        created == IF file_exists THEN file_mode ELSE CreationMode
    IN IF o.save = "dumps fails"
       THEN keep @@ [events |-> <<Ev("garth.dumps", FALSE)>>]
       ELSE IF o.save = "open fails"
       THEN keep @@ [events |-> <<Ev("garth.dumps", TRUE), Ev("open wb", FALSE)>>]
       ELSE IF o.save = "write fails"
       THEN [exists |-> TRUE, bytes |-> SubSeq(bytes, 1, o.written), mode |-> created,
             events |-> <<Ev("garth.dumps", TRUE), Ev("open wb", TRUE),
                          Ev("pickle.dump", FALSE)>>]
       ELSE [exists |-> TRUE, bytes |-> bytes,
             mode |-> IF o.save = "ok" THEN "0600" ELSE created,
             events |-> <<Ev("garth.dumps", TRUE), Ev("open wb", TRUE),
                          Ev("pickle.dump", TRUE), Ev("chmod 0600", o.save = "ok")>>]

\* Faulty variant: the login is refused only when both are missing.
CredentialsMissingBoth(e, p) == e = NoEmail /\ ~p

\* if not self.email or not self.password (line 87)
CredentialsMissing(e, p) == e = NoEmail \/ ~p

\* _fresh_login (lines 85-97).
FreshLogin(g, o) ==
    LET keep == [exists |-> file_exists, bytes |-> session_file, mode |-> file_mode]
    IN IF CredentialsMissing(email, password)
       THEN keep @@ [result |-> Raised("ValueError"), garmin |-> g, events |-> <<>>]
       ELSE IF ~o.auth_ok
       THEN keep @@ [result |-> Raised("login error"),
                     garmin |-> Client("credentials", 0),
                     events |-> <<Ev("Garmin(email, password)", TRUE),
                                  Ev("garmin.login", FALSE)>>]
       ELSE LET client == Client("credentials", o.token)
                saved == SaveSession(client, o)
            IN [exists |-> saved.exists, bytes |-> saved.bytes, mode |-> saved.mode,
                result |-> Returned(client), garmin |-> client,
                events |-> <<Ev("Garmin(email, password)", TRUE),
                             Ev("garmin.login", TRUE)>> \o saved.events]

\* Faulty variant: only the exceptions _login_with_session raises itself are caught.
LoginCatchesOwn(exc) == exc \in {"Session too old", "Session expired or invalid"}

\* The except clause of login (line 53): which exceptions of
\* _login_with_session are caught there.
LoginCatches(exc) == TRUE

\* Faulty variant: a session that was reused is saved again, with the time
\* of the call.
FileAfterReuseSavedAgain(g) ==
    [exists |-> TRUE, bytes |-> Pickle(SessionData(g.token, now, email)), mode |-> "0600"]

\* return self._login_with_session() (line 52): the session file after a
\* reuse that succeeded. Nothing is written.
FileAfterReuse(g) ==
    [exists |-> file_exists, bytes |-> session_file, mode |-> file_mode]

\* Faulty variant: an existing session is tried even with force_refresh.
TriesReuseDespiteForce(force_refresh, exists) == exists

\* if not force_refresh and self.session_file.exists() (line 50)
TriesReuse(force_refresh, exists) == ~force_refresh /\ exists

\* login (lines 39-58).
LoginOutcome(force_refresh, o) ==
    LET keep == [exists |-> file_exists, bytes |-> session_file, mode |-> file_mode]
    IN IF TriesReuse(force_refresh, file_exists)
       THEN LET s == LoginWithSession(o)
            IN IF s.raised = ""
               THEN FileAfterReuse(s.garmin)
                    @@ [result |-> Returned(s.garmin), garmin |-> s.garmin,
                        events |-> s.events]
               ELSE IF ~LoginCatches(s.raised)
               THEN keep @@ [result |-> Raised(s.raised), garmin |-> s.garmin,
                             events |-> s.events]
               ELSE LET f == FreshLogin(s.garmin, o)
                    IN [f EXCEPT !.events =
                          Append(s.events, Ev("Attempting fresh login", TRUE)) \o @]
       ELSE FreshLogin(garmin, o)

\* A call of login: auth.login() of get_garmin_client (line 180) when that
\* function has reached it, else a call by the program that owns the object.
Login ==
    /\ calls < MaxCalls
    /\ \E force_refresh \in IF client_pc = "login" THEN {FALSE} ELSE BOOLEAN :
       \E out \in {LoginOutcome(force_refresh, o) : o \in Oracles} :
            /\ file_exists' = out.exists
            /\ session_file' = out.bytes
            /\ file_mode' = out.mode
            /\ garmin' = out.garmin
            /\ outcome_of_call' = out.result
            /\ events' = <<Ev(IF force_refresh THEN "login(force_refresh=True)"
                              ELSE "login()", TRUE)>> \o out.events
    /\ calls' = calls + 1
    /\ client_pc' = IF client_pc = "login" THEN "done" ELSE "idle"
    /\ UNCHANGED <<now, email, password, ticks, exported, session_b64>>
    /\ UNCHANGED dedupVars

\* Time passes between two calls.
Tick ==
    /\ client_pc # "login"
    /\ ticks < MaxTicks
    /\ \E d \in {1, Days(SESSION_MAX_AGE_DAYS)} : now' = now + d
    /\ ticks' = ticks + 1
    /\ UNCHANGED <<file_exists, session_file, file_mode, email, password, garmin,
                   outcome_of_call, events, calls, exported, session_b64, client_pc>>
    /\ UNCHANGED dedupVars

\* The clock when the object is constructed.
StartTime == Days(400)

\* The files an earlier run or an import may have left: a saved session of
\* some age (400 days, a tick either side of 360 days, none, or stamped by
\* a clock that runs ahead), or bytes that are no pickle stream.
InitialFiles ==
    { Pickle(SessionData(t, ts, m)) :
        t \in {0, 1},
        ts \in { 0, Days(40) - 1, Days(40), Days(40) + 1, StartTime, StartTime + 1 },
        m \in {1} }
    \cup { <<>>, <<PICKLE_PROTO, 1>> }

InitAuth ==
    /\ now = StartTime
    /\ \/ file_exists = FALSE /\ session_file = <<>> /\ file_mode = "0600"
       \/ file_exists = TRUE /\ session_file \in InitialFiles
          /\ file_mode \in {"0600", "0644"}
    /\ email \in {NoEmail, 1}
    /\ password \in BOOLEAN
    /\ garmin = NoClient
    /\ outcome_of_call = NoResult
    /\ events = <<>>
    /\ calls = 0
    /\ ticks = 0
    /\ exported = <<>>
    /\ session_b64 = <<>>
    /\ client_pc = "idle"

\* The Session Manager while the Duplicate Resolver runs: not constructed.
InitAuthIdle ==
    /\ now = StartTime
    /\ file_exists = FALSE /\ session_file = <<>> /\ file_mode = "0600"
    /\ email = NoEmail
    /\ password = FALSE
    /\ garmin = NoClient
    /\ outcome_of_call = NoResult
    /\ events = <<>>
    /\ calls = 0
    /\ ticks = 0
    /\ exported = <<>>
    /\ session_b64 = <<>>
    /\ client_pc = "idle"

\* The Duplicate Resolver while the Session Manager runs: not started.
InitDedupIdle ==
    /\ pc = "start"
    /\ env = [notion_token |-> FALSE, database_id |-> FALSE]
    /\ all_activities = <<>>
    /\ duplicates_map = <<>>
    /\ has_more = TRUE
    /\ start_cursor = NoCursor
    /\ response = NoResponse
    /\ confirm = Unset
    /\ final_confirm = Unset
    /\ duplicates_to_remove = <<>>
    /\ removed_count = 0
    /\ idx = 0
    /\ report = <<>>
    /\ outcome = ""
    /\ trace = <<>>

----------------------------------------------------------------------------
(* garmin_session_auth.py: export, import and get_garmin_client *)

\* A base64 string is a sequence of characters: the digits of the
\* alphabet by their values 0 .. 63, "=" and one character outside the
\* alphabet (a line break).
B64_PAD == 64
B64_NEWLINE == 65
B64_DIGITS == 0 .. 63

\* Faulty variant: the padding characters are left out.
RECURSIVE B64EncodeUnpadded(_)
B64EncodeUnpadded(bytes) ==
    IF bytes = <<>> THEN <<>>
    ELSE IF Len(bytes) = 1
    THEN <<bytes[1] \div 4, (bytes[1] % 4) * 16>>
    ELSE IF Len(bytes) = 2
    THEN <<bytes[1] \div 4, (bytes[1] % 4) * 16 + bytes[2] \div 16, (bytes[2] % 16) * 4>>
    ELSE <<bytes[1] \div 4, (bytes[1] % 4) * 16 + bytes[2] \div 16,
           (bytes[2] % 16) * 4 + bytes[3] \div 64, bytes[3] % 64>>
         \o B64EncodeUnpadded(SubSeq(bytes, 4, Len(bytes)))

\* base64.b64encode(session_bytes).decode("utf-8"): three bytes to four
\* digits, the last group padded with "=".
RECURSIVE B64Encode(_)
B64Encode(bytes) ==
    IF bytes = <<>> THEN <<>>
    ELSE IF Len(bytes) = 1
    THEN <<bytes[1] \div 4, (bytes[1] % 4) * 16, B64_PAD, B64_PAD>>
    ELSE IF Len(bytes) = 2
    THEN <<bytes[1] \div 4, (bytes[1] % 4) * 16 + bytes[2] \div 16, (bytes[2] % 16) * 4,
           B64_PAD>>
    ELSE <<bytes[1] \div 4, (bytes[1] % 4) * 16 + bytes[2] \div 16,
           (bytes[2] % 16) * 4 + bytes[3] \div 64, bytes[3] % 64>>
         \o B64Encode(SubSeq(bytes, 4, Len(bytes)))

\* The decoding loop of base64.b64decode(s) with validate=False: characters
\* outside the alphabet are skipped, decoding stops at a padding that
\* completes a group of four, and a group left incomplete at the end
\* raises binascii.Error.
RECURSIVE A2bBase64(_, _, _, _, _)
A2bBase64(s, quad_pos, leftchar, pads, out) ==
    IF s = <<>> THEN [raised |-> quad_pos # 0, bytes |-> out]
    ELSE LET this_ch == Head(s)
         IN IF this_ch = B64_PAD
            THEN IF quad_pos >= 2 /\ quad_pos + pads + 1 >= 4
                 THEN [raised |-> FALSE, bytes |-> out]
                 ELSE A2bBase64(Tail(s), quad_pos, leftchar,
                                IF quad_pos >= 2 THEN pads + 1 ELSE pads, out)
            ELSE IF this_ch \notin B64_DIGITS
            THEN A2bBase64(Tail(s), quad_pos, leftchar, pads, out)
            ELSE CASE quad_pos = 0 -> A2bBase64(Tail(s), 1, this_ch, 0, out)
                   [] quad_pos = 1 ->
                        A2bBase64(Tail(s), 2, this_ch % 16, 0,
                                  Append(out, leftchar * 4 + this_ch \div 16))
                   [] quad_pos = 2 ->
                        A2bBase64(Tail(s), 3, this_ch % 4, 0,
                                  Append(out, leftchar * 16 + this_ch \div 4))
                   [] OTHER ->
                        A2bBase64(Tail(s), 0, 0, 0, Append(out, leftchar * 64 + this_ch))

\* base64.b64decode(session_b64) (line 155).
B64Decode(s) == A2bBase64(s, 0, 0, 0, <<>>)

\* export_session_for_github (lines 120-143): the string it returns or the
\* exception it raises. It only reads the file.
ExportOutcome(read_ok) ==
    IF ~file_exists
    THEN [raised |-> "No session file exists", returns |-> <<>>,
          events |-> <<Ev("No session file exists", FALSE)>>]
    ELSE IF ~read_ok
    THEN [raised |-> "OSError", returns |-> <<>>, events |-> <<Ev("open rb", FALSE)>>]
    ELSE [raised |-> "", returns |-> B64Encode(session_file),
          events |-> <<Ev("open rb", TRUE), Ev("b64encode", TRUE)>>]

\* What the environment does while the imported bytes are written.
ImportOracles == {o \in SaveOracles : o.save # "dumps fails"}

\* import_session_from_github (lines 145-163): the file after it and the
\* exception it raises, if any. Nothing in it is caught.
ImportOutcome(s, o) ==
    LET keep == [exists |-> file_exists, bytes |-> session_file, mode |-> file_mode]
        decoded == B64Decode(s)
        created == IF file_exists THEN file_mode ELSE CreationMode
    IN IF decoded.raised
       THEN keep @@ [raised |-> "binascii.Error", events |-> <<Ev("b64decode", FALSE)>>]
       ELSE IF o.save = "open fails"
       THEN keep @@ [raised |-> "OSError",
                     events |-> <<Ev("b64decode", TRUE), Ev("open wb", FALSE)>>]
       ELSE IF o.save = "write fails"
       THEN [exists |-> TRUE,
             bytes |-> SubSeq(decoded.bytes, 1, Min(o.written, Len(decoded.bytes))),
             mode |-> created, raised |-> "OSError",
             events |-> <<Ev("b64decode", TRUE), Ev("open wb", TRUE), Ev("write", FALSE)>>]
       ELSE [exists |-> TRUE, bytes |-> decoded.bytes,
             mode |-> IF o.save = "ok" THEN "0600" ELSE created,
             raised |-> IF o.save = "ok" THEN "" ELSE "OSError",
             events |-> <<Ev("b64decode", TRUE), Ev("open wb", TRUE), Ev("write", TRUE),
                          Ev("chmod 0600", o.save = "ok")>>]

\* Values of the GARMIN_SESSION variable: unset or empty, the export of a
\* session saved at StartTime, the same followed by a line break, the
\* export of a session 400 days old, the export of bytes that are no
\* pickle stream, and a string that lost its last character.
EnvSessions ==
    { <<>>,
      B64Encode(Pickle(SessionData(1, StartTime, 1))),
      Append(B64Encode(Pickle(SessionData(1, StartTime, 1))), B64_NEWLINE),
      B64Encode(Pickle(SessionData(1, 0, 1))),
      B64Encode(<<PICKLE_PROTO, 1>>),
      SubSeq(B64Encode(<<PICKLE_PROTO, 1>>), 1, 3) }

Export ==
    /\ client_pc # "login"
    /\ calls < MaxCalls
    /\ \E read_ok \in BOOLEAN :
         LET out == ExportOutcome(read_ok)
         IN /\ exported' = IF out.raised = "" THEN out.returns ELSE exported
            /\ outcome_of_call' = IF out.raised = "" THEN Returned(NoClient)
                                  ELSE Raised(out.raised)
            /\ events' = <<Ev("export_session_for_github", TRUE)>> \o out.events
    /\ calls' = calls + 1
    /\ client_pc' = "idle"
    /\ UNCHANGED <<now, file_exists, session_file, file_mode, email, password, garmin,
                   ticks, session_b64>>
    /\ UNCHANGED dedupVars

\* A call of import_session_from_github by the program that owns the
\* object, with the string the last export returned (the empty string
\* before any export). The values of GARMIN_SESSION are imported by
\* get_garmin_client.
Import ==
    /\ client_pc # "login"
    /\ calls < MaxCalls
    /\ \E s \in {exported} :
       \E out \in {ImportOutcome(s, o) : o \in ImportOracles} :
            /\ session_b64' = s
            /\ file_exists' = out.exists
            /\ session_file' = out.bytes
            /\ file_mode' = out.mode
            /\ outcome_of_call' = IF out.raised = "" THEN Returned(NoClient)
                                  ELSE Raised(out.raised)
            /\ events' = <<Ev("import_session_from_github", TRUE)>> \o out.events
    /\ calls' = calls + 1
    /\ client_pc' = "idle"
    /\ UNCHANGED <<now, email, password, garmin, ticks, exported>>
    /\ UNCHANGED dedupVars

\* Faulty variant: GARMIN_SESSION is read but never imported.
GetGarminClientWithoutImport ==
    /\ client_pc # "login"
    /\ calls + 1 < MaxCalls
    /\ \E github_session \in EnvSessions : session_b64' = github_session
    /\ outcome_of_call' = NoResult
    /\ events' = <<Ev("get_garmin_client", TRUE)>>
    /\ client_pc' = "login"
    /\ garmin' = NoClient
    /\ calls' = calls + 1
    /\ UNCHANGED <<now, file_exists, session_file, file_mode, email, password, ticks,
                   exported>>
    /\ UNCHANGED dedupVars

\* get_garmin_client (lines 166-180) up to line 180: a new object, and the
\* import of GARMIN_SESSION if it is set and not empty. An exception of
\* the import leaves the function; otherwise auth.login() is next.
GetGarminClient ==
    /\ client_pc # "login"
    /\ calls + 1 < MaxCalls
    /\ \E github_session \in EnvSessions :
         /\ session_b64' = github_session
         /\ IF github_session = <<>>
            THEN /\ UNCHANGED <<file_exists, session_file, file_mode>>
                 /\ outcome_of_call' = NoResult
                 /\ events' = <<Ev("get_garmin_client", TRUE)>>
                 /\ client_pc' = "login"
            ELSE \E out \in {ImportOutcome(github_session, o) : o \in ImportOracles} :
                 /\ file_exists' = out.exists
                 /\ session_file' = out.bytes
                 /\ file_mode' = out.mode
                 /\ outcome_of_call' = IF out.raised = "" THEN NoResult
                                       ELSE Raised(out.raised)
                 /\ events' = <<Ev("get_garmin_client", TRUE),
                                Ev("import_session_from_github", TRUE)>> \o out.events
                 /\ client_pc' = IF out.raised = "" THEN "login" ELSE "done"
    /\ garmin' = NoClient
    /\ calls' = calls + 1
    /\ UNCHANGED <<now, email, password, ticks, exported>>
    /\ UNCHANGED dedupVars

NextAuth ==
    \/ Login
    \/ Tick
    \/ Export
    \/ Import
    \/ GetGarminClient

\* A run of cleanup-duplicates.py.
InitD == InitDedup /\ InitAuthIdle

SpecDedup == InitD /\ [][NextDedup]_vars

\* The calls on one GarminSessionAuth object.
InitA == InitAuth /\ InitDedupIdle

SpecAuth == InitA /\ [][NextAuth]_vars

----------------------------------------------------------------------------
(* Properties of the Duplicate Resolver *)

SeqToBag(s) == [x \in Range(s) |-> Cardinality({i \in DOMAIN s : s[i] = x})]

\* The composite key of a fetched record, from its own fields.
CompositeKey(a) == a.date \o <<"|">> \o a.activity_type \o <<"|">> \o a.activity_name

FetchedKeys == {CompositeKey(a) : a \in Range(all_activities)}

\* The fetched records of key k, in fetch order.
Group(k) == SelectSeq(all_activities, LAMBDA a : CompositeKey(a) = k)

\* The records of key k in the remove list, in list order.
RemovedOf(k) == SelectSeq(duplicates_to_remove, LAMBDA a : CompositeKey(a) = k)

\* The least created_time of a group.
MinCreated(group) ==
    CHOOSE t \in {a.created_time : a \in Range(group)} :
        \A a \in Range(group) : StrLeq(t, a.created_time)

\* identify_duplicates has returned.
Identified ==
    \/ pc \in {"final_confirm", "remove"}
    \/ pc = "done" /\ outcome \in {"return@162", "return@170", "end@176"}
    \/ pc = "done" /\ \E e \in Range(trace) : e = InputEvent("removal", FALSE)

PageIds(evs) == [i \in DOMAIN evs |-> evs[i].page_id]
Ids(activities) == [i \in DOMAIN activities |-> activities[i].id]

\* C1: once identify_duplicates has returned, for every composite key that
\* more than one fetched record has, the remove list holds all records of
\* the group but one (each as often as it was fetched, less the one kept),
\* and the one kept has the least created_time of the group.
C1_OneKeptPerGroup ==
    Identified =>
        \A k \in FetchedKeys :
            Len(Group(k)) > 1 =>
                \E i \in DOMAIN Group(k) :
                    /\ SeqToBag(RemovedOf(k)) (+) SetToBag({Group(k)[i]}) = SeqToBag(Group(k))
                    /\ Len(RemovedOf(k)) = Len(Group(k)) - 1
                    /\ \A j \in DOMAIN Group(k) :
                         StrLeq(Group(k)[i].created_time, Group(k)[j].created_time)

\* A group of three records of distinct ids and two created times was
\* fetched newest first and resolved.
C1_Witness ==
    /\ Identified
    /\ \E k \in FetchedKeys :
         /\ Len(Group(k)) = 3
         /\ Cardinality(Range(Ids(Group(k)))) = 3
         /\ StrLess(Group(k)[2].created_time, Group(k)[1].created_time)
         /\ Len(RemovedOf(k)) = 2

\* C2: a fetched record whose composite key no other fetched record has is
\* never in the remove list, and no archive request names its id.
C2_UniqueKeyNeverRemoved ==
    \A a \in Range(all_activities) :
        Len(Group(CompositeKey(a))) = 1 =>
            /\ a \notin Range(duplicates_to_remove)
            /\ \A e \in Range(Updates) : e.page_id # a.id

\* A run archived duplicates while a record of a unique key was fetched too.
C2_Witness ==
    /\ pc = "done" /\ outcome = "end@176"
    /\ Updates # <<>>
    /\ \E a \in Range(all_activities) : Len(Group(CompositeKey(a))) = 1

\* C3: among the records of a duplicate group that share the group's least
\* created_time, the first one fetched is the one kept, and the others are
\* in the remove list in fetch order.
C3_StableTieBreak ==
    Identified =>
        \A k \in FetchedKeys :
            Len(Group(k)) > 1 =>
                LET tied == SelectSeq(Group(k),
                                LAMBDA a : a.created_time = MinCreated(Group(k)))
                IN /\ SelectSeq(RemovedOf(k),
                                LAMBDA a : a.created_time = MinCreated(Group(k))) = Tail(tied)
                   /\ SeqToBag(RemovedOf(k)) (+) SetToBag({Head(tied)}) = SeqToBag(Group(k))

\* Two records of distinct ids tie for the least created_time of a group
\* whose first fetched record is younger.
C3_Witness ==
    /\ Identified
    /\ \E k \in FetchedKeys :
         LET tied == SelectSeq(Group(k), LAMBDA a : a.created_time = MinCreated(Group(k)))
         IN /\ Len(tied) >= 2
            /\ tied[1].id # tied[2].id
            /\ Group(k)[1].created_time # MinCreated(Group(k))

Yes == {<<"y", "e", "s">>, <<"y">>}

Positions(op, kwargs) ==
    {i \in DOMAIN trace : trace[i].op = op /\ trace[i].kwargs = kwargs}

FirstPrompts == Positions("input", <<"proceed">>)
SecondPrompts == Positions("input", <<"removal">>)
QueryPositions == {i \in DOMAIN trace : trace[i].op = "databases.query"}
UpdatePositions == {i \in DOMAIN trace : trace[i].op = "pages.update"}

\* C4: every query comes after the first prompt, answered yes or y; every
\* archive request comes after the second prompt, answered yes or y, which
\* comes after every query; an answer to the first prompt that is not yes
\* or y ends the run without a query or an archive request, and such an
\* answer to the second prompt ends it without an archive request.
C4_TwoConfirmations ==
    /\ \A q \in QueryPositions :
         /\ confirm \in Yes
         /\ \E p \in FirstPrompts : p < q
    /\ \A u \in UpdatePositions :
         /\ confirm \in Yes /\ final_confirm \in Yes
         /\ \E p \in FirstPrompts, r \in SecondPrompts :
              /\ p < r /\ r < u
              /\ \A q \in QueryPositions : p < q /\ q < r
    /\ (confirm # Unset /\ confirm \notin Yes) =>
         pc = "done" /\ QueryPositions = {} /\ UpdatePositions = {}
    /\ (final_confirm # Unset /\ final_confirm \notin Yes) =>
         pc = "done" /\ UpdatePositions = {}

\* A run archived a record after both prompts were answered yes.
C4_Witness ==
    /\ UpdatePositions # {}
    /\ confirm \in Yes /\ final_confirm \in Yes

\* C5: the run sends nothing but queries and page updates; every page
\* update carries page_id and archived = True and nothing else, and its
\* page_id is the id of a record of the remove list.
C5_OnlyArchives ==
    \A i \in DOMAIN trace :
        /\ trace[i].op \in {"input", "databases.query", "pages.update"}
        /\ trace[i].op = "pages.update" =>
             /\ trace[i].kwargs = <<"page_id", "archived">>
             /\ trace[i].archived = TRUE
             /\ \E d \in Range(duplicates_to_remove) : d.id = trace[i].page_id

\* A run sent two archive requests.
C5_Witness ==
    /\ pc = "done"
    /\ Len(Updates) >= 2

\* C6: the archive requests sent so far are those of the first idx records
\* of the remove list, one each and in list order, and removed_count is
\* the number of them that did not fail; the run ends only after the
\* request for the last record, and then reports removed_count out of the
\* length of the list.
C6_BestEffortRemoval ==
    /\ PageIds(Updates) = SubSeq(Ids(duplicates_to_remove), 1, Len(Updates))
    /\ pc = "remove" =>
         /\ Len(Updates) = idx
         /\ idx < Len(duplicates_to_remove)
         /\ removed_count = Len(SelectSeq(Updates, LAMBDA e : e.ok))
    /\ (pc = "done" /\ Updates # <<>>) =>
         /\ outcome = "end@176"
         /\ PageIds(Updates) = Ids(duplicates_to_remove)
         /\ report = <<Len(SelectSeq(Updates, LAMBDA e : e.ok)), Len(duplicates_to_remove)>>
    /\ (pc = "done" /\ outcome = "end@176") =>
         PageIds(Updates) = Ids(duplicates_to_remove)

\* The first of three archive requests failed and the other two were
\* still sent and succeeded.
C6_Witness ==
    /\ pc = "done"
    /\ Len(Updates) = 3
    /\ ~Updates[1].ok /\ Updates[2].ok /\ Updates[3].ok
    /\ report = <<2, 3>>

----------------------------------------------------------------------------
(* Properties of the Session Manager *)

Called(evs, what) == \E i \in DOMAIN evs : evs[i].what = what
Has(evs, what, ok) == \E i \in DOMAIN evs : evs[i].what = what /\ evs[i].ok = ok

\* This step is a call of login.
LoginCall ==
    /\ calls' = calls + 1
    /\ events'[1].what \in {"login()", "login(force_refresh=True)"}

\* This step is a call of login() without force-refresh that finds a
\* persisted session file.
ReuseCall == calls' = calls + 1 /\ events'[1] = Ev("login()", TRUE) /\ file_exists

\* The age of the persisted session at this step.
StoredAge == now - Unpickle(session_file).timestamp

Threshold == SESSION_MAX_AGE_DAYS * TicksPerDay

\* The exceptions of _fresh_login.
FreshLoginErrors == {"ValueError", "login error"}

\* C7: in a login() call that reads a persisted session, a session older
\* than 360 days is not reused and fresh login is attempted; a session of
\* at most 360 days, exactly 360 included, whose blob can be restored is
\* probed, and if the probe succeeds the call returns the client restored
\* from the blob without any credential login.
C7_AgeThreshold ==
    [][ (ReuseCall /\ ~UnpickleRaises(session_file)) =>
          /\ StoredAge > Threshold =>
               /\ outcome_of_call'.client.kind # "restored"
               /\ Called(events', "Attempting fresh login")
          /\ (StoredAge <= Threshold /\ Has(events', "pickle.load", TRUE)
                /\ Unpickle(session_file).session \in Tokens) =>
               /\ Called(events', "get_full_name")
               /\ Has(events', "get_full_name", TRUE) =>
                    /\ outcome_of_call' =
                         Returned(Client("restored", Unpickle(session_file).session))
                    /\ ~Called(events', "Garmin(email, password)")
                    /\ ~Called(events', "garmin.login")
      ]_vars

\* A session of exactly 360 days was reused.
C7_Witness ==
    /\ events # <<>>
    /\ events[Len(events)] = EvInfo("Session valid", TRUE, SESSION_MAX_AGE_DAYS)
    /\ outcome_of_call.kind = "return"
    /\ outcome_of_call.client.kind = "restored"

\* C8: in a login() call that reads a persisted session older than 360
\* days, no client is built from the blob and the probe is never called;
\* the call goes on to fresh login.
C8_NoProbeWhenTooOld ==
    [][ (ReuseCall /\ ~UnpickleRaises(session_file) /\ StoredAge > Threshold) =>
          /\ ~Called(events', "Garmin()")
          /\ ~Called(events', "garth.loads")
          /\ ~Called(events', "get_full_name")
          /\ Called(events', "Attempting fresh login")
      ]_vars

\* A session 400 days old was found, and the call logged in with the
\* credentials without a probe.
C8_Witness ==
    /\ Has(events, "garmin.login", TRUE)
    /\ \E i \in DOMAIN events : events[i] = EvInfo("Session too old", FALSE, 400)
    /\ ~Called(events, "get_full_name")
    /\ outcome_of_call.kind = "return"
    /\ outcome_of_call.client.kind = "credentials"

\* The session reuse of this step fails: the file cannot be read or
\* unpickled, the session is too old, the blob cannot be restored, or the
\* probe raises.
ReuseFails ==
    \/ Has(events', "open rb", FALSE)
    \/ UnpickleRaises(session_file)
    \/ StoredAge > Threshold
    \/ Unpickle(session_file).session \notin Tokens
    \/ Has(events', "get_full_name", FALSE)

\* C9: in a login() call that finds a persisted session, a failing reuse is
\* followed by fresh login, and the call raises only what fresh login
\* raises; the call returns the restored client exactly when the reuse
\* does not fail.
C9_ReuseFailureFallsThrough ==
    [][ ReuseCall =>
          /\ outcome_of_call'.kind = "raise" => outcome_of_call'.exc \in FreshLoginErrors
          /\ ReuseFails =>
               /\ Called(events', "Attempting fresh login")
               /\ outcome_of_call'.client.kind # "restored"
          /\ ~ReuseFails =>
               outcome_of_call' =
                   Returned(Client("restored", Unpickle(session_file).session))
      ]_vars

\* The persisted file could not be unpickled and the call returned a
\* client of a credential login.
C9_Witness ==
    /\ events # <<>> /\ events[1] = Ev("login()", TRUE)
    /\ Has(events, "pickle.load", FALSE)
    /\ outcome_of_call.kind = "return"
    /\ outcome_of_call.client.kind = "credentials"

\* This step is a login call that returns a client of a credential login.
FreshLoginSucceeds ==
    /\ LoginCall
    /\ outcome_of_call'.kind = "return"
    /\ outcome_of_call'.client.kind = "credentials"

\* The bytes _save_session writes at this step.
NewSession == Pickle(SessionData(outcome_of_call'.client.token, now, email))

\* C10 as stated: whenever a login call returns a client of a credential
\* login, the session file holds the new session with the time of the
\* call, and its mode is 0600.
C10_AsStated ==
    [][ FreshLoginSucceeds =>
          /\ file_exists'
          /\ session_file' = NewSession
          /\ file_mode' = "0600"
      ]_vars

\* Some step of _save_session raises at this step.
SaveFails ==
    \E what \in {"garth.dumps", "open wb", "pickle.dump", "chmod 0600"} :
        Has(events', what, FALSE)

\* C10 as amended: when a login call returns a client of a credential
\* login and no step of _save_session raises, the session file holds the
\* new session with the time of the call and mode 0600; when a step
\* raises, the client is returned all the same and the file is as that
\* step left it: untouched if garth.dumps or open raised, a proper prefix
\* of the new bytes if the write raised, the new bytes without the mode
\* being set if chmod raised.
C10_SavedUnlessSaveFails ==
    [][ FreshLoginSucceeds =>
          /\ ~SaveFails =>
               /\ file_exists'
               /\ session_file' = NewSession
               /\ file_mode' = "0600"
          /\ (Has(events', "garth.dumps", FALSE) \/ Has(events', "open wb", FALSE)) =>
               UNCHANGED <<file_exists, session_file, file_mode>>
          /\ Has(events', "pickle.dump", FALSE) =>
               /\ file_exists'
               /\ Len(session_file') < Len(NewSession)
               /\ session_file' = SubSeq(NewSession, 1, Len(session_file'))
               /\ file_mode' = IF file_exists THEN file_mode ELSE CreationMode
          /\ Has(events', "chmod 0600", FALSE) =>
               /\ file_exists'
               /\ session_file' = NewSession
               /\ file_mode' = IF file_exists THEN file_mode ELSE CreationMode
      ]_vars

\* A fresh login after a session that was too old replaced the file by
\* the new session, with the time of the call and mode 0600.
C10_Witness ==
    /\ Called(events, "Session too old")
    /\ Has(events, "chmod 0600", TRUE)
    /\ outcome_of_call.kind = "return"
    /\ outcome_of_call.client.kind = "credentials"
    /\ file_exists
    /\ session_file = Pickle(SessionData(outcome_of_call.client.token, now, email))
    /\ file_mode = "0600"

\* This step is a login call that reaches the fresh-login step: reuse is
\* not tried, or it failed and the call fell through.
FreshLoginReached ==
    /\ LoginCall
    /\ \/ events'[1].what = "login(force_refresh=True)"
       \/ ~file_exists
       \/ Called(events', "Attempting fresh login")

\* C11: when the fresh-login step is reached with the e-mail or the
\* password missing, it raises ValueError before any authentication
\* request is sent (no client is built from credentials, no login is
\* called) and without writing the persisted session; with both present
\* the authentication request is sent.
C11_FreshLoginNeedsCredentials ==
    [][ FreshLoginReached =>
          /\ (email = NoEmail \/ ~password) =>
               /\ outcome_of_call' = Raised("ValueError")
               /\ ~Called(events', "Garmin(email, password)")
               /\ ~Called(events', "garmin.login")
               /\ ~Called(events', "garth.dumps")
               /\ ~Called(events', "open wb")
               /\ UNCHANGED <<file_exists, session_file, file_mode>>
          /\ (email # NoEmail /\ password) =>
               /\ outcome_of_call' # Raised("ValueError")
               /\ Called(events', "garmin.login")
      ]_vars

\* With an e-mail but no password, a login whose session reuse failed
\* raised ValueError and the session file is still there.
C11_Witness ==
    /\ email # NoEmail /\ ~password
    /\ Called(events, "Attempting fresh login")
    /\ outcome_of_call = Raised("ValueError")
    /\ file_exists

\* This step is a call of export_session_for_github.
ExportCall ==
    /\ calls' = calls + 1
    /\ events'[1].what = "export_session_for_github"

\* This step is a call of import_session_from_github by the owner of the
\* object.
ImportCall ==
    /\ calls' = calls + 1
    /\ events'[1].what = "import_session_from_github"

\* The last call was an export that returned a string.
Exported ==
    /\ events # <<>>
    /\ events[1].what = "export_session_for_github"
    /\ outcome_of_call.kind = "return"

\* C12: an export never modifies the session file, and the string it
\* returns decodes to the bytes of the file; an import of that string
\* right after the export, when it returns, leaves the file with the same
\* bytes and mode 0600; and whenever an import of the exported string
\* returns, exporting the file again would give the same string.
C12_ExportImportRoundTrip ==
    [][ /\ ExportCall =>
             /\ UNCHANGED <<file_exists, session_file, file_mode>>
             /\ outcome_of_call'.kind = "return" =>
                  B64Decode(exported') = [raised |-> FALSE, bytes |-> session_file]
        /\ (ImportCall /\ session_b64' = exported /\ outcome_of_call'.kind = "return") =>
             /\ file_exists'
             /\ file_mode' = "0600"
             /\ B64Encode(session_file') = exported
             /\ Exported => session_file' = session_file
      ]_vars

\* A complete session was exported and the string imported again: the
\* file holds the session, with mode 0600.
C12_Witness ==
    /\ events # <<>>
    /\ events[1].what = "import_session_from_github"
    /\ outcome_of_call.kind = "return"
    /\ session_b64 = exported
    /\ exported = B64Encode(session_file)
    /\ ~UnpickleRaises(session_file)
    /\ file_exists
    /\ file_mode = "0600"

\* This step is the first part of a call of get_garmin_client, up to its
\* call of login.
GetClientCall ==
    /\ calls' = calls + 1
    /\ events'[1].what = "get_garmin_client"

\* The positions in evs of a credential authentication.
CredentialSteps(evs) ==
    {i \in DOMAIN evs : evs[i].what \in {"Garmin(email, password)", "garmin.login"}}

\* The positions in evs at which the persisted session is opened for reading.
ReadSteps(evs) == {i \in DOMAIN evs : evs[i].what = "open rb"}

\* C13: in get_garmin_client, a GARMIN_SESSION that is set and not empty
\* is imported first, replacing the session file by the decoded bytes,
\* and nothing of login happens before the import has returned; the
\* login() that follows is without force-refresh, opens the imported
\* session before any credential authentication, and returns the client
\* restored from the imported session when the reuse does not fail.
C13_ImportBeforeLogin ==
    [][ /\ (GetClientCall /\ session_b64' # <<>>) =>
             /\ Len(events') >= 2
             /\ events'[2].what = "import_session_from_github"
             /\ CredentialSteps(events') = {} /\ ReadSteps(events') = {}
             /\ client_pc' = "login" <=> Has(events', "chmod 0600", TRUE)
             /\ client_pc' = "login" =>
                  /\ file_exists'
                  /\ session_file' = B64Decode(session_b64').bytes
                  /\ file_mode' = "0600"
        /\ client_pc = "login" =>
             /\ LoginCall
             /\ events'[1] = Ev("login()", TRUE)
             /\ client_pc' = "done"
        /\ (client_pc = "login" /\ session_b64 # <<>>) =>
             /\ session_file = B64Decode(session_b64).bytes
             /\ ReadSteps(events') = {2}
             /\ \A i \in CredentialSteps(events') : i > 2
             /\ ~ReuseFails =>
                  outcome_of_call' =
                      Returned(Client("restored", Unpickle(session_file).session))
      ]_vars

\* get_garmin_client imported a GARMIN_SESSION that ends in a line break
\* and returned the client restored from the imported session, without a
\* credential authentication.
C13_Witness ==
    /\ client_pc = "done"
    /\ session_b64 = Append(B64Encode(Pickle(SessionData(1, StartTime, 1))), B64_NEWLINE)
    /\ events # <<>> /\ events[1] = Ev("login()", TRUE)
    /\ session_file = Pickle(SessionData(1, StartTime, 1))
    /\ outcome_of_call = Returned(Client("restored", 1))
    /\ CredentialSteps(events) = {}

\* The GARMIN_SESSION of the last get_garmin_client could not be used as
\* a session: its encoding is malformed, the decoded bytes are no pickle
\* stream, the session is too old or cannot be restored, or the probe was
\* rejected.
SessionUnusable ==
    \/ B64Decode(session_b64).raised
    \/ Has(events, "pickle.load", FALSE)
    \/ Called(events, "Session too old")
    \/ Has(events, "garth.loads", FALSE)
    \/ Has(events, "get_full_name", FALSE)

\* C14: when get_garmin_client has ended with credentials configured and
\* a GARMIN_SESSION that could not be used as a session, it has reached
\* the credential login.
C14_UnusableSessionFallsBack ==
    (/\ client_pc = "done"
     /\ session_b64 # <<>>
     /\ email # NoEmail /\ password
     /\ SessionUnusable)
    => Called(events, "garmin.login")

\* C15: a login with force-refresh, and a login that finds no session
\* file, never open or unpickle the persisted session, never restore a
\* client from it and never call the probe: the call starts with the
\* fresh login, which raises ValueError or builds the client from the
\* credentials as its first step.
C15_ReuseOnlyWithoutForce ==
    [][ (LoginCall /\ (events'[1].what = "login(force_refresh=True)" \/ ~file_exists)) =>
          /\ ReadSteps(events') = {}
          /\ ~Called(events', "pickle.load")
          /\ ~Called(events', "Garmin()")
          /\ ~Called(events', "garth.loads")
          /\ ~Called(events', "get_full_name")
          /\ ~Called(events', "Attempting fresh login")
          /\ outcome_of_call'.client.kind # "restored"
          /\ IF email = NoEmail \/ ~password
             THEN outcome_of_call' = Raised("ValueError") /\ Len(events') = 1
             ELSE Len(events') >= 2 /\ events'[2] = Ev("Garmin(email, password)", TRUE)
      ]_vars

\* A login with force-refresh found a session of the current day that
\* could have been reused, did not read it, and raised ValueError for
\* want of a password.
C15_Witness ==
    /\ events = <<Ev("login(force_refresh=True)", TRUE)>>
    /\ outcome_of_call = Raised("ValueError")
    /\ file_exists
    /\ session_file = Pickle(SessionData(1, StartTime, 1))
    /\ now = StartTime

\* The session file changes at this step: its bytes, its mode, or whether
\* it exists.
FileChanges == <<file_exists, session_file, file_mode>>' # <<file_exists, session_file, file_mode>>

\* C16: a login() that tries to reuse the persisted session leaves the
\* file as it was (bytes, hence blob, timestamp and account, and mode)
\* unless the reuse failed and the fresh login that followed saved a new
\* session; in particular a reuse that succeeded does not refresh the
\* stored timestamp. The file changes only in a login call whose
\* credential authentication succeeded and whose save opened the file for
\* writing, or in an import that opened it for writing.
C16_ReuseLeavesFile ==
    [][ /\ (ReuseCall /\ outcome_of_call'.client.kind = "restored") => ~FileChanges
        /\ (ReuseCall /\ ~Has(events', "garmin.login", TRUE)) => ~FileChanges
        /\ FileChanges =>
             \/ /\ LoginCall
                /\ Has(events', "garmin.login", TRUE)
                /\ Has(events', "open wb", TRUE)
             \/ /\ ImportCall \/ GetClientCall
                /\ Has(events', "open wb", TRUE)
      ]_vars

\* A session stamped 359 and a half days before the call was reused, and
\* the file still carries that timestamp.
C16_Witness ==
    /\ events # <<>> /\ events[1] = Ev("login()", TRUE)
    /\ outcome_of_call.kind = "return"
    /\ outcome_of_call.client.kind = "restored"
    /\ file_exists
    /\ ~UnpickleRaises(session_file)
    /\ now - Unpickle(session_file).timestamp = Days(SESSION_MAX_AGE_DAYS) - 1

\* The last call was a login that returned a client of a credential login.
PrevFreshLoginSucceeded ==
    /\ events # <<>>
    /\ events[1].what \in {"login()", "login(force_refresh=True)"}
    /\ outcome_of_call.kind = "return"
    /\ outcome_of_call.client.kind = "credentials"

\* This step is a login() without force-refresh in which the session file,
\* if it is read, can be opened, and the probe, if it is called, is accepted.
NextLoginAccepted ==
    /\ LoginCall
    /\ events'[1] = Ev("login()", TRUE)
    /\ ~Has(events', "open rb", FALSE)
    /\ ~Has(events', "get_full_name", FALSE)

\* The persisted session, if there is one, is at most 360 days old.
AgeWithinLimit == (file_exists /\ ~UnpickleRaises(session_file)) => StoredAge <= Threshold

\* C20 as stated: a login() without force-refresh that follows a login
\* whose fresh login succeeded, with the session at most 360 days old and
\* the probe accepted, returns the restored client and performs no
\* credential authentication.
C20_AsStated ==
    [][ (PrevFreshLoginSucceeded /\ NextLoginAccepted /\ AgeWithinLimit) =>
          /\ outcome_of_call'.kind = "return"
          /\ outcome_of_call'.client.kind = "restored"
          /\ CredentialSteps(events') = {}
      ]_vars

\* The last call was a login whose fresh login succeeded and whose
\* _save_session ran to its end.
PrevFreshLoginSaved == PrevFreshLoginSucceeded /\ Has(events, "chmod 0600", TRUE)

\* C20 as amended: a login() without force-refresh that follows a login
\* whose fresh login succeeded and whose _save_session did not fail, with
\* the session at most 360 days old, the file readable and the probe
\* accepted, returns the client restored from the session that login
\* saved, performs no credential authentication and leaves the file as it
\* is; and in every login call, credential authentication happens only
\* with force-refresh, with no session file, or after a failed reuse.
C20_ReuseAfterSavedLogin ==
    [][ /\ (PrevFreshLoginSaved /\ NextLoginAccepted /\ AgeWithinLimit) =>
             /\ outcome_of_call' =
                  Returned(Client("restored", outcome_of_call.client.token))
             /\ CredentialSteps(events') = {}
             /\ ~FileChanges
        /\ (LoginCall /\ CredentialSteps(events') # {}) =>
             \/ events'[1].what = "login(force_refresh=True)"
             \/ ~file_exists
             \/ ReuseFails
      ]_vars

\* A fresh login saved the session the server issued; after a tick the
\* next login() reused it without a credential authentication.
C20_Witness ==
    /\ events # <<>> /\ events[1] = Ev("login()", TRUE)
    /\ outcome_of_call = Returned(Client("restored", 2))
    /\ CredentialSteps(events) = {}
    /\ session_file = Pickle(SessionData(2, StartTime, 1))
    /\ now = StartTime + 1

----------------------------------------------------------------------------
(* Properties of the fetch loop and of a whole run *)

\* This step sends a query to the database.
QueryStep == Len(Queries') = Len(Queries) + 1

\* The records of a response page, as the loop stores them.
Extracted(results) == [i \in DOMAIN results |-> ActivityInfo(results[i])]

\* The bucket of key k holds the fetched records of that key, in fetch order.
BucketsInFetchOrder(m, fetched) ==
    /\ {m[i].key : i \in DOMAIN m} = {a.unique_key : a \in Range(fetched)}
    /\ \A i, j \in DOMAIN m : m[i].key = m[j].key => i = j
    /\ \A i \in DOMAIN m :
         m[i].activities = SelectSeq(fetched, LAMBDA a : a.unique_key = m[i].key)

\* C17: the first query is sent without a cursor and every later one with
\* the next_cursor of the response before it, which reported more pages;
\* a response that is processed to its end appends its records, in
\* order, to all_activities, and the loop goes on exactly if it reports
\* more pages; when the loop ends every bucket holds the records of its
\* key in fetch order; and once the loop has ended no query is sent.
C17_FetchAllPagination ==
    [][ /\ QueryStep =>
             LET sent == trace'[Len(trace')]
             IN /\ pc = "fetch"
                /\ sent.start_cursor = IF Queries = <<>> THEN NoCursor
                                       ELSE response.next_cursor
                /\ sent.kwargs = IF Queries = <<>> THEN <<"database_id">>
                                 ELSE <<"database_id", "start_cursor">>
                /\ Queries # <<>> => response.has_more
                /\ (sent.ok /\ outcome' # "except@179") =>
                     /\ all_activities' = all_activities \o Extracted(response'.results)
                     /\ pc' = IF response'.has_more THEN "fetch" ELSE "identify"
        /\ (pc = "fetch" /\ pc' = "identify") =>
             /\ ~response'.has_more
             /\ BucketsInFetchOrder(duplicates_map', all_activities')
        /\ pc # "fetch" => ~QueryStep
      ]_vars

\* Three queries fetched four records: the second and third carried the
\* cursors of the responses before them, and the third response ended
\* the loop with two records of one key that arrived in different pages.
C17_Witness ==
    /\ pc = "identify"
    /\ Len(Queries) = 3 /\ Len(trace) = 4
    /\ Queries[1].start_cursor = NoCursor
    /\ Queries[2].start_cursor = 1
    /\ Queries[3].start_cursor = 2
    /\ ~response.has_more
    /\ Ids(all_activities) = <<2, 4, 1, 3>>
    /\ Len(response.results) = 1

\* The positions in trace of a query that raised.
FailedQueries == {i \in QueryPositions : ~trace[i].ok}

\* C18: when a query of the fetch loop has raised, the run has ended in
\* the handler at the top level of main; the failed query is the last
\* request of the run, so no query was sent again, the second
\* confirmation was not asked, no remove list was built and no archive
\* request was sent.
C18_QueryErrorStopsRun ==
    FailedQueries # {} =>
        /\ pc = "done"
        /\ outcome = "except@179"
        /\ FailedQueries = {Len(trace)}
        /\ SecondPrompts = {}
        /\ UpdatePositions = {}
        /\ duplicates_to_remove = <<>>
        /\ report = <<>>

\* The third query raised after two pages with duplicates had been
\* fetched, and the run ended without an archive request.
C18_Witness ==
    /\ Len(Queries) = 3
    /\ Queries[1].ok /\ Queries[2].ok /\ ~Queries[3].ok
    /\ Ids(all_activities) = <<1, 2, 3, 1>>
    /\ pc = "done"
    /\ Updates = <<>>

\* The record ids the run keeps: the first record of every sorted bucket
\* that holds more than one record.
KeptIds ==
    {duplicates_map[i].activities[1].id :
        i \in {j \in DOMAIN duplicates_map : Len(duplicates_map[j].activities) > 1}}

\* C19: once identify_duplicates has returned, no archive request of the
\* run targets the record id kept for a composite key, whatever pages the
\* server returned, repeated record ids included.
C19_KeptNeverArchived ==
    Identified => \A e \in Range(Updates) : e.page_id \notin KeptIds

====
